---- MODULE Spec2Model ----
(***************************************************************************)
(* Model of the matching core of anexonibo.py: the two NF-number           *)
(* extractors (find_nf_number_in_string, find_nf_number_in_filename), the  *)
(* scorer (calculate_match_score) and the matcher                          *)
(* (auto_match_files_to_schedules), the display-time ordering of the      *)
(* stored proposals, and the session: the searches, the uploads, the three *)
(* attach paths and the clear buttons acting on st.session_state.          *)
(*                                                                         *)
(* Python values are represented as follows.  A str is a sequence of       *)
(* one-character strings; None is the one-element sequence <<"None">>,     *)
(* which no str equals; a dict is a function whose DOMAIN is the set of    *)
(* keys present; a raised TypeError/AttributeError is the value TypeError  *)
(* (extractors) or a result with raised = TRUE (scorer, matcher).          *)
(***************************************************************************)
EXTENDS Integers, Sequences, FiniteSets, TLC

VARIABLES pc, text, filename, schedule_item, supplier_id,
          uploaded_files, schedules, threshold, result, sorted_matches

\* The session: the values of the widgets that persist between script runs
\* (kind, file_uploader), the fields of st.session_state (kind_key,
\* last_results, pending_uploads, completed_attachments, auto_matches, with
\* uploaded_files and supplier_id above), the next id the document store
\* issues, and the attach_files call made by the latest script run.
VARIABLES kind, kind_key, last_results, file_uploader, pending_uploads,
          completed_attachments, auto_matches, next_file_id, attach_call

session == <<kind, kind_key, last_results, file_uploader, pending_uploads,
             completed_attachments, auto_matches, next_file_id, attach_call>>

vars == <<pc, text, filename, schedule_item, supplier_id,
          uploaded_files, schedules, threshold, result, sorted_matches,
          session>>

\* The arguments of the call under way; no step changes them.
inputs == <<text, filename, schedule_item, supplier_id,
            uploaded_files, schedules, threshold>>

(***************************************************************************)
(* Python values                                                           *)
(***************************************************************************)
None == <<"None">>

TypeError == <<"TypeError">>

EmptyStr == <<>>

\* Python truthiness of a str-or-None value: None and "" are falsy.
Truthy(v) == v # None /\ v # EmptyStr

\* dict.get(key) / dict.get(key, default)
Get(d, key) == IF key \in DOMAIN d THEN d[key] ELSE None

GetDefault(d, key, default) == IF key \in DOMAIN d THEN d[key] ELSE default

\* a or b, for str-or-None operands
Or(a, b) == IF Truthy(a) THEN a ELSE b

\* The empty dict {} (also what "x or {}" yields for a missing or null x).
EmptyDict == <<>>

\* (item.get(key) or {}).get(sub): nested dicts are functions, absent or
\* null ones are the empty dict.
GetNested(d, key, sub) ==
    LET inner == IF key \in DOMAIN d THEN d[key] ELSE EmptyDict
    IN  IF sub \in DOMAIN inner THEN inner[sub] ELSE None

Min(S) == CHOOSE x \in S : \A y \in S : x <= y

Max(S) == CHOOSE x \in S : \A y \in S : x >= y

\* The value of attach_call after a run that did not call attach_files.
NoCall == [kind |-> "none", schedule_id |-> None, outcome |-> "none"]

\* Radio "Tipo": its two options, the first being the default.
KindOptions == <<"Pagamentos (debit)", "Recebimentos (credit)">>

\* The session after the first script run, before any click.
InitSession ==
    /\ kind = KindOptions[1]
    /\ kind_key = "debit"
    /\ last_results = <<>>
    /\ file_uploader = <<>>
    /\ pending_uploads = <<>>
    /\ completed_attachments = <<>>
    /\ auto_matches = <<>>
    /\ next_file_id = 1
    /\ attach_call = NoCall

(***************************************************************************)
(* Characters, str.upper() and substring search                            *)
(***************************************************************************)
Digits == {"0", "1", "2", "3", "4", "5", "6", "7", "8", "9"}

\* \s of the re module, restricted to the whitespace the inputs use.
Whitespace == {" "}

LowerLetters == <<"a","b","c","d","e","f","g","h","i","j","k","l","m",
                  "n","o","p","q","r","s","t","u","v","w","x","y","z">>

UpperLetters == <<"A","B","C","D","E","F","G","H","I","J","K","L","M",
                  "N","O","P","Q","R","S","T","U","V","W","X","Y","Z">>

\* The upper-case letter of each lower-case letter.
UpperOf ==
    [c \in {LowerLetters[i] : i \in DOMAIN LowerLetters} |->
        UpperLetters[CHOOSE i \in DOMAIN LowerLetters : LowerLetters[i] = c]]

UpperChar(c) == IF c \in DOMAIN UpperOf THEN UpperOf[c] ELSE c

\* str.upper()
Upper(s) == [i \in 1..Len(s) |-> UpperChar(s[i])]

\* "needle in haystack" for two strs
Contains(haystack, needle) ==
    \E i \in 1..(Len(haystack) - Len(needle) + 1) :
        \A k \in 1..Len(needle) : haystack[i + k - 1] = needle[k]

(***************************************************************************)
(* Regular expressions, as re.findall(pattern, text, re.IGNORECASE)        *)
(* evaluates them.  A pattern is a sequence of elements:                   *)
(*   Lit(s)            the literal s, compared case-insensitively          *)
(*   Star(set)         set*       greedy, gives back one char at a time    *)
(*   Opt(set)          set?       greedy                                   *)
(*   Group(set, lo, hi) (set{lo,hi}) greedy, the captured group            *)
(***************************************************************************)
Lit(s) == [kind |-> "lit", s |-> s, set |-> {}, lo |-> 0, hi |-> 0]

Star(set) == [kind |-> "star", s |-> <<>>, set |-> set, lo |-> 0, hi |-> 0]

Opt(set) == [kind |-> "rep", s |-> <<>>, set |-> set, lo |-> 0, hi |-> 1]

Group(set, lo, hi) == [kind |-> "group", s |-> <<>>, set |-> set, lo |-> lo, hi |-> hi]

\* Length of the longest run of characters of set starting at position i.
RECURSIVE RunLength(_, _, _)
RunLength(set, t, i) ==
    IF i > Len(t) \/ t[i] \notin set THEN 0 ELSE 1 + RunLength(set, t, i + 1)

MatchLiteral(t, i, s) ==
    /\ i + Len(s) - 1 <= Len(t)
    /\ \A k \in 1..Len(s) : UpperChar(t[i + k - 1]) = UpperChar(s[k])

NoMatch == [ok |-> FALSE, cap |-> None]

RECURSIVE MatchAt(_, _, _, _, _)
RECURSIVE TryRepeat(_, _, _, _, _, _)

\* Match elements k.. of pattern p against t from position i; cap is the
\* group captured so far.  Backtracks as the re engine does.
MatchAt(p, k, t, i, cap) ==
    IF k > Len(p) THEN [ok |-> TRUE, cap |-> cap]
    ELSE LET e == p[k]
         IN  IF e.kind = "lit"
             THEN IF MatchLiteral(t, i, e.s)
                  THEN MatchAt(p, k + 1, t, i + Len(e.s), cap)
                  ELSE NoMatch
             ELSE LET run == RunLength(e.set, t, i)
                      most == IF e.kind = "star" \/ run < e.hi THEN run ELSE e.hi
                  IN  TryRepeat(p, k, t, i, cap, most)

\* Greedy repetition: try m characters, then m - 1, ... down to the
\* element's minimum.
TryRepeat(p, k, t, i, cap, m) ==
    IF m < p[k].lo THEN NoMatch
    ELSE LET newcap == IF p[k].kind = "group" THEN SubSeq(t, i, i + m - 1) ELSE cap
             r == MatchAt(p, k + 1, t, i + m, newcap)
         IN  IF r.ok THEN r ELSE TryRepeat(p, k, t, i, cap, m - 1)

\* re.findall(p, t, re.IGNORECASE) followed by "matches[0] if matches":
\* the capture of the leftmost match, or None.
RECURSIVE FindFrom(_, _, _)
FindFrom(p, t, i) ==
    IF i > Len(t) THEN None
    ELSE LET m == MatchAt(p, 1, t, i, None)
         IN  IF m.ok THEN m.cap ELSE FindFrom(p, t, i + 1)

FindFirst(p, t) == FindFrom(p, t, 1)

(***************************************************************************)
(* find_nf_number_in_string                                                *)
(***************************************************************************)
MinLabelDigits == 5

MaxLabelDigits == 9

NineDigits == 9

MinBareDigits == 6

MaxBareDigits == 8

\* Faulty variant: the bare digit-run patterns tried before the labelled ones.
StringPatternsBareFirst ==
    << << Group(Digits, NineDigits, NineDigits) >>,
       << Group(Digits, MinBareDigits, MaxBareDigits) >>,
       << Lit(<<"N","F">>), Opt({":"}), Star(Whitespace),
          Group(Digits, MinLabelDigits, MaxLabelDigits) >>,
       << Lit(<<"N","F","e">>), Opt({":"}), Star(Whitespace),
          Group(Digits, MinLabelDigits, MaxLabelDigits) >>,
       << Lit(<<"D","A","N","F","E">>), Star(Whitespace),
          Group(Digits, MinLabelDigits, MaxLabelDigits) >>,
       << Lit(<<"N","o","t","a">>), Star(Whitespace),
          Lit(<<"F","i","s","c","a","l">>), Star(Whitespace), Opt({":"}),
          Star(Whitespace), Group(Digits, MinLabelDigits, MaxLabelDigits) >> >>

StringPatterns ==
    << \* NF:?\s*(\d{5,9})
       << Lit(<<"N","F">>), Opt({":"}), Star(Whitespace),
          Group(Digits, MinLabelDigits, MaxLabelDigits) >>,
       \* NFe:?\s*(\d{5,9})
       << Lit(<<"N","F","e">>), Opt({":"}), Star(Whitespace),
          Group(Digits, MinLabelDigits, MaxLabelDigits) >>,
       \* DANFE\s*(\d{5,9})
       << Lit(<<"D","A","N","F","E">>), Star(Whitespace),
          Group(Digits, MinLabelDigits, MaxLabelDigits) >>,
       \* Nota\s*Fiscal\s*:?\s*(\d{5,9})
       << Lit(<<"N","o","t","a">>), Star(Whitespace),
          Lit(<<"F","i","s","c","a","l">>), Star(Whitespace), Opt({":"}),
          Star(Whitespace), Group(Digits, MinLabelDigits, MaxLabelDigits) >>,
       \* (\d{9})
       << Group(Digits, NineDigits, NineDigits) >>,
       \* (\d{6,8})
       << Group(Digits, MinBareDigits, MaxBareDigits) >> >>

\* for pattern in patterns: first pattern with a match wins.
RECURSIVE FirstPatternMatch(_, _)
FirstPatternMatch(patterns, t) ==
    IF patterns = <<>> THEN None
    ELSE LET found == FindFirst(Head(patterns), t)
         IN  IF found # None THEN found
             ELSE FirstPatternMatch(Tail(patterns), t)

\* re.findall raises TypeError when the text is None.
find_nf_number_in_string(t) ==
    IF t = None THEN TypeError ELSE FirstPatternMatch(StringPatterns, t)

(***************************************************************************)
(* find_nf_number_in_filename                                              *)
(***************************************************************************)
\* Faulty variant: the first pattern without its 0* prefix, (\d{5,9}).
FilenamePatternsNoZeroPrefix ==
    << << Group(Digits, MinLabelDigits, MaxLabelDigits) >>,
       << Lit(<<"N","F">>), Star({"0"}),
          Group(Digits, MinLabelDigits, MaxLabelDigits) >>,
       << Lit(<<"N","F","e">>), Star({"0"}),
          Group(Digits, MinLabelDigits, MaxLabelDigits) >> >>

FilenamePatterns ==
    << \* 0*(\d{5,9})
       << Star({"0"}), Group(Digits, MinLabelDigits, MaxLabelDigits) >>,
       \* NF0*(\d{5,9})
       << Lit(<<"N","F">>), Star({"0"}),
          Group(Digits, MinLabelDigits, MaxLabelDigits) >>,
       \* NFe0*(\d{5,9})
       << Lit(<<"N","F","e">>), Star({"0"}),
          Group(Digits, MinLabelDigits, MaxLabelDigits) >> >>

find_nf_number_in_filename(name) ==
    IF name = None THEN TypeError ELSE FirstPatternMatch(FilenamePatterns, name)

(***************************************************************************)
(* calculate_match_score                                                   *)
(*                                                                         *)
(* The reason string is kept as the sequence of its fragments, one per     *)
(* fired rule, in the order they are appended; the final strip() only      *)
(* drops the trailing blank.  When an extractor raises, the call raises:   *)
(* raised is TRUE and score and reason are the locals at that point.       *)
(***************************************************************************)
StakeholderPoints == 30

IdentifierPoints == 70

KeywordPoints == 10

keywords ==
    << <<"N","F">>, <<"D","A","N","F","E">>, <<"F","A","T","U","R","A">>,
       <<"B","O","L","E","T","O">>, <<"R","E","C","I","B","O">>,
       <<"N","O","T","A">> >>

StakeholderFragment == [rule |-> "Fornecedor corresponde", arg |-> EmptyStr]

IdentifierFragment(nf) == [rule |-> "Numero de NF encontrado em ambos", arg |-> nf]

KeywordFragment(keyword) == [rule |-> "Palavra-chave encontrada em ambos", arg |-> keyword]

\* Faulty variant: the client's id is consulted as well, between stakeholder and
\* supplier.
ScheduleSupplierIdWithClient(item) ==
    Or(Or(GetNested(item, "stakeholder", "id"), GetNested(item, "client", "id")),
       GetNested(item, "supplier", "id"))

\* (schedule_item.get("stakeholder") or {}).get("id") or
\* (schedule_item.get("supplier") or {}).get("id")
ScheduleSupplierId(item) ==
    Or(GetNested(item, "stakeholder", "id"), GetNested(item, "supplier", "id"))

\* if supplier_id: ... if schedule_supplier_id == supplier_id
StakeholderRuleFires(item, sup) ==
    Truthy(sup) /\ ScheduleSupplierId(item) = sup

\* keyword in filename.upper() and keyword in description.upper()
KeywordHits(name, description) ==
    LET upper_name == Upper(name)
        upper_description == Upper(description)
    IN  SelectSeq(keywords, LAMBDA kw : /\ Contains(upper_name, kw)
                                        /\ Contains(upper_description, kw))

calculate_match_score(item, name, sup) ==
    LET stake == StakeholderRuleFires(item, sup)
        score1 == IF stake THEN StakeholderPoints ELSE 0
        reason1 == IF stake THEN <<StakeholderFragment>> ELSE <<>>
        description == GetDefault(item, "description", EmptyStr)
        nf_in_description == find_nf_number_in_string(description)
        nf_in_filename == find_nf_number_in_filename(name)
    IN  IF nf_in_description = TypeError \/ nf_in_filename = TypeError
        THEN [raised |-> TRUE, score |-> score1, reason |-> reason1]
        ELSE LET ident == /\ Truthy(nf_in_description)
                          /\ Truthy(nf_in_filename)
                          /\ nf_in_description = nf_in_filename
                 score2 == score1 + (IF ident THEN IdentifierPoints ELSE 0)
                 reason2 == reason1 \o (IF ident
                                        THEN <<IdentifierFragment(nf_in_description)>>
                                        ELSE <<>>)
                 hits == KeywordHits(name, description)
             IN  [raised |-> FALSE,
                  score |-> score2 + KeywordPoints * Len(hits),
                  reason |-> reason2 \o [i \in 1..Len(hits) |-> KeywordFragment(hits[i])]]

(***************************************************************************)
(* schedule_label                                                          *)
(***************************************************************************)
\* The separator " . " of the label's parts ("*" stands for the bullet U+2022).
Separator == <<" ", "*", " ">>

RECURSIVE Join(_, _)
\* sep.join(parts)
Join(sep, parts) ==
    IF parts = <<>> THEN EmptyStr
    ELSE IF Len(parts) = 1 THEN Head(parts)
    ELSE Head(parts) \o sep \o Join(sep, Tail(parts))

schedule_label(it) ==
    LET sid == Or(Or(Or(Or(Get(it, "id"), Get(it, "scheduleId")), Get(it, "Id")),
                     Get(it, "ScheduleId")), EmptyStr)
        desc == Or(Or(Get(it, "description"), Get(it, "title")), EmptyStr)
        due == Or(Or(Or(Get(it, "dueDate"), Get(it, "due")), Get(it, "due_date")),
                  EmptyStr)
        val == Or(Or(Get(it, "value"), Get(it, "amount")), EmptyStr)
        stakeholder == Or(Or(Or(GetNested(it, "stakeholder", "name"),
                                GetNested(it, "client", "name")),
                             GetNested(it, "supplier", "name")), EmptyStr)
        parts == (IF Truthy(due) THEN <<due>> ELSE <<>>)
                 \o (IF Truthy(desc) THEN <<desc>> ELSE <<>>)
                 \o (IF Truthy(stakeholder)
                     THEN << <<"(">> \o stakeholder \o <<")">> >> ELSE <<>>)
                 \o (IF Truthy(val) THEN << <<"R","$"," ">> \o val >> ELSE <<>>)
                 \o (IF Truthy(sid) THEN << <<"[">> \o sid \o <<"]">> >> ELSE <<>>)
    IN  Join(Separator, parts)

(***************************************************************************)
(* auto_match_files_to_schedules                                           *)
(***************************************************************************)
\* Faulty variant: a record replaces the current best with an equal score too.
BetterOrEqual(score, best_score) == score >= best_score

\* if score > best_score
Better(score, best_score) == score > best_score

\* schedule.get("id") or schedule.get("scheduleId") or schedule.get("Id")
ScheduleIdOf(schedule) ==
    Or(Or(Get(schedule, "id"), Get(schedule, "scheduleId")), Get(schedule, "Id"))

\* Faulty variant: the new best is recorded without its score.
ReplaceBestKeepScore(best, schedule, scored) ==
    [best EXCEPT !.best_match = ScheduleIdOf(schedule),
                 !.best_reason = scored.reason,
                 !.best_schedule = schedule]

\* The four assignments made when a record beats the current best.
ReplaceBest(best, schedule, scored) ==
    [best EXCEPT !.best_match = ScheduleIdOf(schedule),
                 !.best_score = scored.score,
                 !.best_reason = scored.reason,
                 !.best_schedule = schedule]

\* The locals of one pass of the outer loop, before the inner loop.
InitialBest(T) ==
    [best_match |-> None, best_score |-> T, best_reason |-> <<>>,
     best_schedule |-> EmptyDict, raised |-> FALSE]

RECURSIVE ScanSchedules(_, _, _, _)
\* for schedule in schedules: ... ; a raise of the scorer ends the loop.
ScanSchedules(best, scheds, name, sup) ==
    IF scheds = <<>> THEN best
    ELSE LET scored == calculate_match_score(Head(scheds), name, sup)
         IN  IF scored.raised THEN [best EXCEPT !.raised = TRUE]
             ELSE ScanSchedules(IF Better(scored.score, best.best_score)
                                THEN ReplaceBest(best, Head(scheds), scored)
                                ELSE best,
                                Tail(scheds), name, sup)

\* The dict appended to matches for a file with a best match.
Proposal(file, best) ==
    [file_id |-> file.id, file_name |-> file.name,
     schedule_id |-> best.best_match,
     schedule_label |-> schedule_label(best.best_schedule),
     score |-> best.best_score, reason |-> best.best_reason]

RECURSIVE MatchLoop(_, _, _, _, _)
\* for file in uploaded_files: ... if best_match: matches.append(...)
MatchLoop(files, scheds, sup, T, matches) ==
    IF files = <<>> THEN [raised |-> FALSE, matches |-> matches]
    ELSE LET best == ScanSchedules(InitialBest(T), scheds, Head(files).name, sup)
         IN  IF best.raised THEN [raised |-> TRUE, matches |-> <<>>]
             ELSE MatchLoop(Tail(files), scheds, sup, T,
                            IF Truthy(best.best_match)
                            THEN Append(matches, Proposal(Head(files), best))
                            ELSE matches)

auto_match_files_to_schedules(files, scheds, sup, T) ==
    MatchLoop(files, scheds, sup, T, <<>>)

(***************************************************************************)
(* sorted(auto_matches, key=lambda x: x["score"], reverse=True)            *)
(***************************************************************************)
\* Faulty variant: ascending order, reverse=True forgotten.
InsertByScoreAsc(sorted, m) ==
    LET before == {i \in 0..Len(sorted) :
                      \A j \in 1..i : sorted[j].score <= m.score}
        at == Max(before)
    IN  SubSeq(sorted, 1, at) \o <<m>> \o SubSeq(sorted, at + 1, Len(sorted))

\* Insert m after every element whose score is at least m's: stable.
InsertByScoreDesc(sorted, m) ==
    LET before == {i \in 0..Len(sorted) :
                      \A j \in 1..i : sorted[j].score >= m.score}
        at == Max(before)
    IN  SubSeq(sorted, 1, at) \o <<m>> \o SubSeq(sorted, at + 1, Len(sorted))

RECURSIVE SortedByScore(_)
SortedByScore(ms) ==
    IF ms = <<>> THEN <<>>
    ELSE InsertByScoreDesc(SortedByScore(SubSeq(ms, 1, Len(ms) - 1)), ms[Len(ms)])

(***************************************************************************)
(* Inputs of the extractor calls: texts built from a few fragments.        *)
(***************************************************************************)
MaxFragments == 3

Label1234567 == <<"N","F"," ","1","2","3","4","5","6","7">>

DescFragments ==
    { Label1234567,
      <<"n","f"," ","1","2","3","4","5","6","7">>,
      <<"8">>,
      <<"N","F",":","5","5","5","5","5">>,
      <<"N","F","e"," ","6","6","6","6","6">>,
      <<"D","A","N","F","E"," ","7","7","7","7","7">>,
      <<"N","o","t","a"," ","F","i","s","c","a","l",":"," ","8","8","8","8","8">>,
      <<"9","9","9","9","9","9","9","9","9">>,
      <<"4","4","4","4","4","4">>,
      <<" ">>,
      <<"x">> }

NameFragments ==
    { <<"0","0">>,
      <<"0">>,
      <<"1","2","3","4","5","6">>,
      <<"1","2","3","4">>,
      <<"1","0","0","2","0","0","3","0","0">>,
      <<"7">>,
      <<"_">>,
      <<"N","F">>,
      <<"N","F","e">>,
      <<"_","i","n","v","o","i","c","e",".","p","d","f">> }

RECURSIVE Concat(_)
Concat(ss) == IF ss = <<>> THEN <<>> ELSE Head(ss) \o Concat(Tail(ss))

\* Every concatenation of at most n fragments.
TextsOf(frags, n) ==
    {Concat(ss) : ss \in UNION {[1..k -> frags] : k \in 0..n}}

DefaultItem == [description |-> EmptyStr]

InitExtract ==
    /\ pc = "start"
    /\ \/ text \in TextsOf(DescFragments, MaxFragments) \cup {None}
          /\ filename = EmptyStr
       \/ text = EmptyStr /\ filename \in TextsOf(NameFragments, MaxFragments)
    /\ schedule_item = DefaultItem
    /\ supplier_id = None
    /\ uploaded_files = <<>>
    /\ schedules = <<>>
    /\ threshold = 0
    /\ result = None
    /\ sorted_matches = <<>>
    /\ InitSession

CallFindInString ==
    /\ pc = "start"
    /\ pc' = "find_nf_number_in_string"
    /\ result' = find_nf_number_in_string(text)
    /\ UNCHANGED <<inputs, sorted_matches, session>>

CallFindInFilename ==
    /\ pc = "start"
    /\ pc' = "find_nf_number_in_filename"
    /\ result' = find_nf_number_in_filename(filename)
    /\ UNCHANGED <<inputs, sorted_matches, session>>

NextExtract == CallFindInString \/ CallFindInFilename

SpecExtract == InitExtract /\ [][NextExtract]_vars

(***************************************************************************)
(* Inputs of the scorer calls: schedule items of every shape (a key may be *)
(* absent, null or empty), filenames, expected supplier ids.               *)
(***************************************************************************)
SupplierA == <<"e","0","0","a">>

SupplierB == <<"b","7","7","c">>

DescLimpeza ==
    <<"P","a","g","a","m","e","n","t","o"," ","N","F",":"," ",
      "3","1","2","6","4","7","3"," ","-"," ",
      "s","e","r","v","i","c","o"," ","l","i","m","p","e","z","a">>

DescDiversos ==
    <<"P","a","g","a","m","e","n","t","o"," ","d","i","v","e","r","s","o","s">>

DescDanfe ==
    <<"d","a","n","f","e"," ","3","1","2","6","4","7","3"," ",
      "b","o","l","e","t","o">>

NameNF == <<"N","F","3","1","2","6","4","7","3",".","p","d","f">>

NameBoleto == <<"b","o","l","e","t","o",".","p","d","f">>

NameZeros == <<"0","0","3","1","2","6","4","7","3",".","p","d","f">>

NameDanfe ==
    <<"D","a","n","f","e","_","N","o","t","a","_",
      "3","1","2","6","4","7","3",".","p","d","f">>

\* The dicts {key: v} for v in values, and {} for an absent key.
Optional(key, values) == {EmptyDict} \cup {key :> v : v \in values}

DescriptionChoices ==
    Optional("description", {None, EmptyStr, DescLimpeza, DescDiversos, DescDanfe})

PartyChoices(key) ==
    Optional(key, {EmptyDict, "id" :> EmptyStr, "id" :> SupplierA, "id" :> SupplierB})

ScoreItems ==
    {d @@ st @@ cl @@ su :
        d \in DescriptionChoices, st \in PartyChoices("stakeholder"),
        cl \in Optional("client", {"id" :> SupplierA}),
        su \in PartyChoices("supplier")}

ScoreFilenames == {EmptyStr, NameNF, NameBoleto, NameZeros, NameDanfe}

SupplierIds == {None, EmptyStr, SupplierA}

InitScore ==
    /\ pc = "start"
    /\ text = EmptyStr
    /\ filename \in ScoreFilenames
    /\ schedule_item \in ScoreItems
    /\ supplier_id \in SupplierIds
    /\ uploaded_files = <<>>
    /\ schedules = <<>>
    /\ threshold = 0
    /\ result = None
    /\ sorted_matches = <<>>
    /\ InitSession

CallScore ==
    /\ pc = "start"
    /\ pc' = "calculate_match_score"
    /\ result' = calculate_match_score(schedule_item, filename, supplier_id)
    /\ UNCHANGED <<inputs, sorted_matches, session>>

NextScore == CallScore

SpecScore == InitScore /\ [][NextScore]_vars

(***************************************************************************)
(* Inputs of the matcher calls: up to MaxFiles files and MaxSchedules      *)
(* records, the expected supplier id, and a threshold.                     *)
(***************************************************************************)
MaxFiles == 2

MaxSchedules == 2

MinThreshold == 30

DefaultThreshold == 50

Thresholds == {MinThreshold, DefaultThreshold, IdentifierPoints}

DescNF == <<"N","F"," ","1","2","3","4","5">>

DescBoleto == <<"b","o","l","e","t","o">>

MatchFiles ==
    { [id |-> <<"F","1">>, name |-> <<"N","F","1","2","3","4","5",".","p","d","f">>],
      [id |-> <<"F","2">>,
       name |-> <<"b","o","l","e","t","o","_","n","f","1","2","3","4","5",".","p","d","f">>],
      [id |-> <<"F","3">>, name |-> <<"0","0","1","2","3","4","5",".","p","d","f">>] }

MatchSchedules ==
    { ("id" :> <<"a">>) @@ ("description" :> DescNF)
          @@ ("stakeholder" :> ("id" :> SupplierA)),
      ("id" :> <<"b">>) @@ ("description" :> DescNF),
      ("scheduleId" :> <<"c">>) @@ ("description" :> DescBoleto)
          @@ ("supplier" :> ("id" :> SupplierA)),
      ("description" :> DescNF) @@ ("stakeholder" :> ("id" :> SupplierA)),
      ("id" :> EmptyStr) @@ ("ScheduleId" :> <<"e">>) @@ ("description" :> DescNF),
      ("id" :> <<"f">>) @@ ("description" :> None) }

SeqsUpTo(S, n) == UNION {[1..k -> S] : k \in 0..n}

InitMatch ==
    /\ pc = "start"
    /\ text = EmptyStr
    /\ filename = EmptyStr
    /\ schedule_item = DefaultItem
    /\ supplier_id \in {None, SupplierA}
    /\ uploaded_files \in SeqsUpTo(MatchFiles, MaxFiles)
    /\ schedules \in SeqsUpTo(MatchSchedules, MaxSchedules)
    /\ threshold \in Thresholds
    /\ result = None
    /\ sorted_matches = <<>>
    /\ InitSession

CallMatch ==
    /\ pc = "start"
    /\ pc' = "auto_match_files_to_schedules"
    /\ result' = auto_match_files_to_schedules(uploaded_files, schedules,
                                               supplier_id, threshold)
    /\ UNCHANGED <<inputs, sorted_matches, session>>

\* The proposals are sorted when they are displayed, not when they are
\* computed.
DisplayMatches ==
    /\ pc = "auto_match_files_to_schedules"
    /\ ~result.raised
    /\ pc' = "displayed"
    /\ sorted_matches' = SortedByScore(result.matches)
    /\ UNCHANGED <<inputs, result, session>>

NextMatch == CallMatch \/ DisplayMatches

SpecMatch == InitMatch /\ [][NextMatch]_vars

(***************************************************************************)
(* The session.  Streamlit runs the whole script once per click or widget  *)
(* change; each action below is one such run, from the event that starts   *)
(* it to the end of the script (or of the rerun that st.rerun() starts).   *)
(* The toggle "Habilitar conciliacao automatica" and the threshold slider  *)
(* are read only by the upload handler, so their values are inputs of that *)
(* action.  The radio "Agrupar por" changes only the grouping on screen.   *)
(***************************************************************************)
\* kind_key = "debit" if kind.startswith("Pagamentos") else "credit"
KindKeyOf(k) == IF k = KindOptions[1] THEN "debit" ELSE "credit"

\* The records the service holds, per kind, in the order it lists them: two
\* debit records (the second carries its id as scheduleId) and one credit
\* record, whose description is null.
RecordA == ("id" :> <<"a">>) @@ ("description" :> DescNF)

RecordB == ("scheduleId" :> <<"b">>) @@ ("description" :> DescBoleto)

RecordN == ("id" :> <<"n">>) @@ ("description" :> None)

DebitRecords == <<RecordA, RecordB>>

CreditRecords == <<RecordN>>

RecordsOfKind(k) == IF k = "debit" THEN DebitRecords ELSE CreditRecords

\* list_schedules(kind, ...): the records of that kind, or none of them when
\* the filter excludes them.
list_schedules(k) == {<<>>, RecordsOfKind(k)}

\* The files on the user's disk, by name.
Name0012345 == <<"0","0","1","2","3","4","5",".","p","d","f">>

LocalFiles == <<Name0012345>>

\* The ids the document store issues: at most MaxUploads uploads succeed.
MaxUploads == 2

RECURSIVE AddNewUploads(_, _)
\* for up in uploaded_files: append up to pending_uploads unless a pending
\* upload has its name.
AddNewUploads(pending, selected) ==
    IF selected = <<>> THEN pending
    ELSE AddNewUploads(
             IF \E i \in 1..Len(pending) : pending[i] = Head(selected)
             THEN pending ELSE Append(pending, Head(selected)),
             Tail(selected))

\* The variables of the pure functions' calls, which no script run uses.
calls == <<pc, text, filename, schedule_item, supplier_id, schedules,
           threshold, result, sorted_matches>>

\* What every complete script run does whichever event started it: line 443
\* stores the radio's kind, lines 573-577 queue the selected files.
RunScript(k, selected, pending) ==
    /\ kind_key' = KindKeyOf(k)
    /\ pending_uploads' = AddNewUploads(pending, selected)

Init ==
    /\ pc = "session"
    /\ text = EmptyStr
    /\ filename = EmptyStr
    /\ schedule_item = DefaultItem
    /\ supplier_id = SupplierA
    /\ uploaded_files = <<>>
    /\ schedules = <<>>
    /\ threshold = DefaultThreshold
    /\ result = None
    /\ sorted_matches = <<>>
    /\ InitSession

\* Button "Limpar dados".
LimparDados ==
    /\ uploaded_files' = <<>>
    /\ completed_attachments' = <<>>
    /\ auto_matches' = <<>>
    /\ attach_call' = NoCall
    /\ RunScript(kind, file_uploader, <<>>)
    /\ UNCHANGED <<calls, kind, last_results, file_uploader, next_file_id>>

\* Button "Limpar correspondencias".
LimparCorrespondencias ==
    /\ auto_matches' = <<>>
    /\ attach_call' = NoCall
    /\ RunScript(kind, file_uploader, pending_uploads)
    /\ UNCHANGED <<calls, uploaded_files, kind, last_results, file_uploader,
                   completed_attachments, next_file_id>>

\* Buttons "Hoje", "Esta semana", "Este mes": a debit search; the kind it
\* stores is overwritten by line 443 later in the same run.
QuickSearch(results) ==
    /\ last_results' = results
    /\ attach_call' = NoCall
    /\ RunScript(kind, file_uploader, pending_uploads)
    /\ UNCHANGED <<calls, uploaded_files, kind, file_uploader,
                   completed_attachments, auto_matches, next_file_id>>

\* Radio "Tipo" set to another option.
SelectKind(k) ==
    /\ k # kind
    /\ kind' = k
    /\ attach_call' = NoCall
    /\ RunScript(k, file_uploader, pending_uploads)
    /\ UNCHANGED <<calls, uploaded_files, last_results, file_uploader,
                   completed_attachments, auto_matches, next_file_id>>

\* Button "Buscar agendamentos": a search of the radio's kind.
CustomSearch(results) ==
    /\ last_results' = results
    /\ attach_call' = NoCall
    /\ RunScript(kind, file_uploader, pending_uploads)
    /\ UNCHANGED <<calls, uploaded_files, kind, file_uploader,
                   completed_attachments, auto_matches, next_file_id>>

\* Buttons "Limpar historico" (shown with the history).
LimparHistorico ==
    /\ completed_attachments # <<>>
    /\ completed_attachments' = <<>>
    /\ attach_call' = NoCall
    /\ RunScript(kind, file_uploader, pending_uploads)
    /\ UNCHANGED <<calls, uploaded_files, kind, last_results, file_uploader,
                   auto_matches, next_file_id>>

\* The file uploader's selection changes.
ChooseFiles(selected) ==
    /\ selected # file_uploader
    /\ file_uploader' = selected
    /\ attach_call' = NoCall
    /\ RunScript(kind, selected, pending_uploads)
    /\ UNCHANGED <<calls, uploaded_files, kind, last_results,
                   completed_attachments, auto_matches, next_file_id>>

\* upload_file_to_nibo and extract_file_id: an id is extracted, the response
\* holds none, or the request raises.
UploadOutcomes == {"ok", "no id", "raised"}

\* Faulty variant: the document store gives every upload the same id.
ReusedFileId(n) == 1

\* The id the document store gives the n-th upload: distinct per upload.
FreshFileId(n) == n

\* The matching pass of the upload handler, made when the toggle is on and
\* some records are held: its proposals, or a raise.
MatchUploaded(file_info, enable, T) ==
    IF enable /\ last_results # <<>>
    THEN auto_match_files_to_schedules(<<file_info>>, last_results,
                                       supplier_id, T)
    ELSE [raised |-> FALSE, matches |-> <<>>]

\* pending_uploads.remove(up)
RemoveAt(s, idx) ==
    [i \in 1..(Len(s) - 1) |-> IF i < idx THEN s[i] ELSE s[i + 1]]

\* The session after a successful upload of the idx-th pending file: the
\* file is appended to uploaded_files; then, unless the matcher raised, its
\* proposals are appended to auto_matches and the file leaves the pending
\* ones.
Uploaded(idx, file_info, matched) ==
    /\ uploaded_files' = Append(uploaded_files, file_info)
    /\ next_file_id' = next_file_id + 1
    /\ auto_matches' = IF matched.raised THEN auto_matches
                       ELSE auto_matches \o matched.matches
    /\ RunScript(kind, file_uploader,
                 IF matched.raised THEN pending_uploads
                 ELSE RemoveAt(pending_uploads, idx))

\* Button "Upload" of the idx-th pending file, the toggle being enable and
\* the slider T.
Upload(idx, enable, T, outcome) ==
    /\ idx \in 1..Len(pending_uploads)
    /\ next_file_id <= MaxUploads
    /\ attach_call' = NoCall
    /\ IF outcome = "ok"
       THEN Uploaded(idx, [id |-> FreshFileId(next_file_id),
                           name |-> pending_uploads[idx]],
                     MatchUploaded([id |-> FreshFileId(next_file_id),
                                    name |-> pending_uploads[idx]], enable, T))
       ELSE /\ RunScript(kind, file_uploader, pending_uploads)
            /\ UNCHANGED <<uploaded_files, next_file_id, auto_matches>>
    /\ UNCHANGED <<calls, kind, last_results, file_uploader,
                   completed_attachments>>

\* attach_files: the service accepts (status 200, 201, 202 or 204), refuses,
\* or the request raises.
AttachOutcomes == {"ok", "failure", "raised"}

\* Faulty variant: the attachment is recorded whatever the service answered.
AttachAlwaysSucceeded(outcome) == TRUE

\* if ok:
AttachSucceeded(outcome) == outcome = "ok"

\* Faulty variant: the new entry replaces the history.
ReplaceAttachments(completed, entry) == <<entry>>

\* st.session_state.completed_attachments.append({...})
RecordAttachment(completed, entry) == Append(completed, entry)

\* Faulty variant: the attached file stays among the available files.
KeepFile(files, id) == files

\* [f for f in st.session_state.uploaded_files if f["id"] != file_id]
RemoveFile(files, id) ==
    LET Other(f) == f.id # id
    IN  SelectSeq(files, Other)

\* The rest of an attach click, common to the three paths: the call with
\* the stored kind, then, if the service accepted, the new history entry and
\* the removal of the file from the available ones.
Attach(sid, file_id, entry, outcome) ==
    /\ attach_call' = [kind |-> KindKeyOf(kind), schedule_id |-> sid,
                       outcome |-> outcome]
    /\ IF AttachSucceeded(outcome)
       THEN /\ completed_attachments' =
                   RecordAttachment(completed_attachments, entry)
            /\ uploaded_files' = RemoveFile(uploaded_files, file_id)
       ELSE UNCHANGED <<completed_attachments, uploaded_files>>
    /\ RunScript(kind, file_uploader, pending_uploads)
    /\ UNCHANGED <<calls, kind, last_results, file_uploader, auto_matches,
                   next_file_id>>

\* Some confirmed attachment pairs this record id with this file id.
Attached(sid, file_id) ==
    \E i \in 1..Len(completed_attachments) :
        /\ completed_attachments[i]["schedule_id"] = sid
        /\ completed_attachments[i]["file_id"] = file_id

\* item.get("id") or item.get("scheduleId") or item.get("Id")
\*     or item.get("ScheduleId")
ScheduleViewId(item) ==
    Or(Or(Or(Get(item, "id"), Get(item, "scheduleId")), Get(item, "Id")),
       Get(item, "ScheduleId"))

\* item.get("id") or item.get("scheduleId")
FileViewId(item) == Or(Get(item, "id"), Get(item, "scheduleId"))

\* Button "Anexar" of the i-th listed record, the select box showing the
\* file name selected_file; file_options maps a name to the id of the last
\* pending file of that name.
AttachFromSchedule(i, selected_file, outcome) ==
    /\ i \in 1..Len(last_results)
    /\ LET sid == ScheduleViewId(last_results[i])
           NotAttached(f) == ~Attached(sid, f.id)
           pending_files == SelectSeq(uploaded_files, NotAttached)
           named == {n \in 1..Len(pending_files) :
                        pending_files[n].name = selected_file}
       IN  /\ named # {}
           /\ LET file_id == pending_files[Max(named)].id
              IN  Attach(sid, file_id,
                         ("schedule_id" :> sid) @@ ("file_id" :> file_id)
                             @@ ("file_name" :> selected_file),
                         outcome)

\* Button "Anexar" of the idx-th available file, the select box showing the
\* label selected_schedule; schedule_options maps a label to the id of the
\* last listed record of that label not yet attached to the file.
AttachFromFile(idx, n, outcome) ==
    /\ idx \in 1..Len(uploaded_files)
    /\ n \in 1..Len(last_results)
    /\ LET file == uploaded_files[idx]
           attachments == {a \in 1..Len(completed_attachments) :
                              completed_attachments[a]["file_id"] = file.id}
           offered == {m \in 1..Len(last_results) :
                          ~Attached(FileViewId(last_results[m]), file.id)}
           selected_schedule == schedule_label(last_results[n])
           labelled == {m \in offered :
                           schedule_label(last_results[m]) = selected_schedule}
       IN  /\ ~(Cardinality(attachments) > 0
                  /\ Len(last_results) = Cardinality(attachments))
           /\ n \in offered
           /\ LET sid == FileViewId(last_results[Max(labelled)])
              IN  Attach(sid, file.id,
                         ("schedule_id" :> sid) @@ ("file_id" :> file.id)
                             @@ ("file_name" :> file.name)
                             @@ ("schedule_label" :> selected_schedule),
                         outcome)

\* Faulty variant: a proposal stays confirmable after its file was attached.
NeverAttached(file_id) == FALSE

\* any(a["file_id"] == match["file_id"] for a in completed_attachments)
AlreadyAttached(file_id) ==
    \E i \in 1..Len(completed_attachments) :
        completed_attachments[i]["file_id"] = file_id

\* Button "Confirmar" of the idx-th proposal in display order.
ConfirmMatch(idx, outcome) ==
    /\ idx \in 1..Len(auto_matches)
    /\ LET match == SortedByScore(auto_matches)[idx]
       IN  /\ ~AlreadyAttached(match.file_id)
           /\ Attach(match.schedule_id, match.file_id,
                     ("schedule_id" :> match.schedule_id)
                         @@ ("file_id" :> match.file_id)
                         @@ ("file_name" :> match.file_name)
                         @@ ("schedule_label" :> match.schedule_label)
                         @@ ("auto_matched" :> TRUE),
                     outcome)

Next ==
    \/ LimparDados
    \/ LimparCorrespondencias
    \/ \E results \in list_schedules("debit") : QuickSearch(results)
    \/ \E k \in {KindOptions[1], KindOptions[2]} : SelectKind(k)
    \/ \E results \in list_schedules(KindKeyOf(kind)) : CustomSearch(results)
    \/ \E i \in 1..Len(last_results), outcome \in AttachOutcomes :
          \E selected_file \in {LocalFiles[n] : n \in 1..Len(LocalFiles)} :
              AttachFromSchedule(i, selected_file, outcome)
    \/ \E selected \in {<<>>, LocalFiles} : ChooseFiles(selected)
    \/ \E idx \in 1..Len(pending_uploads), enable \in BOOLEAN,
          T \in Thresholds, outcome \in UploadOutcomes :
          Upload(idx, enable, T, outcome)
    \/ \E idx \in 1..Len(uploaded_files), n \in 1..Len(last_results),
          outcome \in AttachOutcomes : AttachFromFile(idx, n, outcome)
    \/ LimparHistorico
    \/ \E idx \in 1..Len(auto_matches), outcome \in AttachOutcomes :
          ConfirmMatch(idx, outcome)

Spec == Init /\ [][Next]_vars

(***************************************************************************)
(* Properties of the extractors                                            *)
(***************************************************************************)
Number1234567 == <<"1","2","3","4","5","6","7">>

\* The label "NF 1234567" stands at position i of t.
LabelAt(t, i) ==
    /\ i + Len(Label1234567) - 1 <= Len(t)
    /\ SubSeq(t, i, i + Len(Label1234567) - 1) = Label1234567

\* An NF-labelled number starts at position j of t: "NF" in either case, an
\* optional colon, optional whitespace, then at least five digits.
NFLabelledNumberAt(t, j) ==
    /\ j + 1 <= Len(t)
    /\ UpperChar(t[j]) = "N" /\ UpperChar(t[j + 1]) = "F"
    /\ LET a == j + 2
           b == IF a <= Len(t) /\ t[a] = ":" THEN a + 1 ELSE a
           c == b + RunLength(Whitespace, t, b)
       IN  RunLength(Digits, t, c) >= MinLabelDigits

\* C9 as stated: whenever the text contains the label "NF 1234567", the
\* description extractor returns "1234567", whatever surrounds the label.
C9_LabelAlwaysWins ==
    (pc = "find_nf_number_in_string" /\ \E i \in 1..Len(text) : LabelAt(text, i))
        => result = Number1234567

\* C9 amended: when the label "NF 1234567" is the leftmost NF-labelled
\* number of the text and no further digit follows its seven digits, the
\* description extractor returns "1234567", whatever else surrounds it.
C9_LeftmostLabelWins ==
    pc = "find_nf_number_in_string" =>
        \A i \in 1..Len(text) :
            ( /\ LabelAt(text, i)
              /\ RunLength(Digits, text, i + Len(Label1234567) - Len(Number1234567))
                     = Len(Number1234567)
              /\ \A j \in 1..(i - 1) : ~NFLabelledNumberAt(text, j) )
            => result = Number1234567

\* The label comes after a bare nine-digit run and before another labelled
\* number, and its number is still the one returned.
C9_Witness ==
    /\ pc = "find_nf_number_in_string"
    /\ text = <<"9","9","9","9","9","9","9","9","9">> \o Label1234567
                 \o <<"N","F",":","5","5","5","5","5">>
    /\ result = Number1234567

\* Start positions of the maximal digit runs of t.
DigitRunStarts(t) ==
    {i \in 1..Len(t) : t[i] \in Digits /\ (i = 1 \/ t[i - 1] \notin Digits)}

\* Start positions of the qualifying runs: at least five digits long.
QualifyingRunStarts(t) ==
    {i \in DigitRunStarts(t) : RunLength(Digits, t, i) >= MinLabelDigits}

\* C10: when the leftmost qualifying digit run of the filename is some
\* leading zeros followed by 5 to 9 digits starting with a non-zero digit,
\* the filename extractor returns exactly those digits, zeros stripped.
C10_LeadingZerosStripped ==
    (pc = "find_nf_number_in_filename" /\ QualifyingRunStarts(filename) # {}) =>
        LET i == Min(QualifyingRunStarts(filename))
            n == RunLength(Digits, filename, i)
            z == RunLength({"0"}, filename, i)
        IN  (n - z >= MinLabelDigits /\ n - z <= MaxLabelDigits)
                => result = SubSeq(filename, i + z, i + n - 1)

\* "00123456_invoice.pdf" gives "123456".
C10_Witness ==
    /\ pc = "find_nf_number_in_filename"
    /\ filename = <<"0","0","1","2","3","4","5","6",
                    "_","i","n","v","o","i","c","e",".","p","d","f">>
    /\ result = <<"1","2","3","4","5","6">>

(***************************************************************************)
(* Properties of the scorer                                                *)
(***************************************************************************)
\* The description the item carries, with an absent or null one read as "".
DescriptionOrEmpty(item) ==
    IF "description" \in DOMAIN item /\ item["description"] # None
    THEN item["description"] ELSE EmptyStr

\* The identifier rule in the claim's words: both extractions succeed and
\* the identifiers are equal as strings.
IdentifierRuleFires(item, name) ==
    LET a == find_nf_number_in_string(DescriptionOrEmpty(item))
        b == find_nf_number_in_filename(name)
    IN  a # None /\ b # None /\ a = b

\* The keywords found, case-insensitively, in both filename and description.
KeywordsInBoth(item, name) ==
    SelectSeq(keywords,
              LAMBDA kw : /\ Contains(Upper(name), Upper(kw))
                          /\ Contains(Upper(DescriptionOrEmpty(item)), Upper(kw)))

ExpectedScore(item, name, sup) ==
    (IF StakeholderRuleFires(item, sup) THEN StakeholderPoints ELSE 0)
    + (IF IdentifierRuleFires(item, name) THEN IdentifierPoints ELSE 0)
    + KeywordPoints * Len(KeywordsInBoth(item, name))

ExpectedReason(item, name, sup) ==
    (IF StakeholderRuleFires(item, sup) THEN <<StakeholderFragment>> ELSE <<>>)
    \o (IF IdentifierRuleFires(item, name)
        THEN <<IdentifierFragment(find_nf_number_in_filename(name))>> ELSE <<>>)
    \o [i \in 1..Len(KeywordsInBoth(item, name)) |->
            KeywordFragment(KeywordsInBoth(item, name)[i])]

\* The item is malformed in the sense of C6: its description is absent, null
\* or empty, or the file's name is empty.
Malformed(item, name) ==
    DescriptionOrEmpty(item) = EmptyStr \/ name = EmptyStr

\* C6: the scorer never raises on malformed input; for a record whose
\* description is absent, null or empty, or a file whose name is empty, the
\* call completes and the identifier and keyword rules contribute 0.
C6_NeverRaisesOnMalformed ==
    (pc = "calculate_match_score" /\ Malformed(schedule_item, filename)) =>
        /\ ~result.raised
        /\ result.score \in {0, StakeholderPoints}

\* C7: for every (record, filename, expected id) the scorer returns
\* 30 (stakeholder rule) + 70 (identifier rule) + 10 per keyword found in
\* both, the rationale lists the fired rules in the order stakeholder,
\* identifier, keywords, no fired rule gives score 0 and an empty rationale,
\* and the limpeza example scores 110.
C7_ScoreFormula ==
    pc = "calculate_match_score" =>
        /\ ~result.raised
        /\ result.score = ExpectedScore(schedule_item, filename, supplier_id)
        /\ result.reason = ExpectedReason(schedule_item, filename, supplier_id)
        /\ (result.reason = <<>> <=> result.score = 0)
        /\ ( /\ DescriptionOrEmpty(schedule_item) = DescLimpeza
             /\ filename = NameNF
             /\ StakeholderRuleFires(schedule_item, supplier_id) )
           => result.score = 110

\* The formula of C7 on the calls that return: it fails only where the call
\* raises.
C7_ScoreFormulaWhenReturned ==
    (pc = "calculate_match_score" /\ ~result.raised) =>
        /\ result.score = ExpectedScore(schedule_item, filename, supplier_id)
        /\ result.reason = ExpectedReason(schedule_item, filename, supplier_id)
        /\ (result.reason = <<>> <=> result.score = 0)
        /\ ( /\ DescriptionOrEmpty(schedule_item) = DescLimpeza
             /\ filename = NameNF
             /\ StakeholderRuleFires(schedule_item, supplier_id) )
           => result.score = 110

\* The points the stakeholder rule added: the score with the expected id
\* less the score of the same call without one.
StakeholderPointsAdded ==
    result.score - calculate_match_score(schedule_item, filename, None).score

\* C8 as stated: the stakeholder rule adds 30 points exactly when an
\* expected id is supplied and the record carries it under any of
\* stakeholder, client or supplier.
C8_AnyPartyEarnsPoints ==
    pc = "calculate_match_score" =>
        StakeholderPointsAdded =
            (IF /\ Truthy(supplier_id)
                /\ supplier_id \in {GetNested(schedule_item, "stakeholder", "id"),
                                    GetNested(schedule_item, "client", "id"),
                                    GetNested(schedule_item, "supplier", "id")}
             THEN StakeholderPoints ELSE 0)

\* C8 amended: the stakeholder rule adds 30 points exactly when a non-empty
\* expected id is supplied and it equals the record's stakeholder id or,
\* when the stakeholder id is absent or empty, its supplier id; the client
\* id is not consulted.
C8_StakeholderThenSupplier ==
    pc = "calculate_match_score" =>
        StakeholderPointsAdded =
            (IF /\ Truthy(supplier_id)
                /\ supplier_id =
                     (IF Truthy(GetNested(schedule_item, "stakeholder", "id"))
                      THEN GetNested(schedule_item, "stakeholder", "id")
                      ELSE GetNested(schedule_item, "supplier", "id"))
             THEN StakeholderPoints ELSE 0)

\* The expected id is found under supplier, the stakeholder id being empty,
\* and the 30 points are part of the limpeza example's 110.
C8_Witness ==
    /\ pc = "calculate_match_score"
    /\ supplier_id = SupplierA
    /\ GetNested(schedule_item, "stakeholder", "id") = EmptyStr
    /\ GetNested(schedule_item, "supplier", "id") = SupplierA
    /\ "client" \notin DOMAIN schedule_item
    /\ DescriptionOrEmpty(schedule_item) = DescLimpeza
    /\ filename = NameNF
    /\ result.score = 110

(***************************************************************************)
(* Properties of the matcher                                               *)
(***************************************************************************)
\* The matcher call is just over (it returned, or raised and returned
\* nothing).
Called == pc = "auto_match_files_to_schedules"

\* What calculate_match_score gives for record j and a file name.
ScoreFor(j, name) == calculate_match_score(schedules[j], name, supplier_id).score

MaxScoreFor(name) == Max({ScoreFor(j, name) : j \in 1..Len(schedules)})

ProposalsFor(id) == {i \in 1..Len(result.matches) : result.matches[i].file_id = id}

C2_BestOnly ==
    Called =>
        /\ \A k \in 1..Len(uploaded_files) :
              Cardinality(ProposalsFor(uploaded_files[k].id))
                  <= Cardinality({n \in 1..Len(uploaded_files) :
                                     uploaded_files[n].id = uploaded_files[k].id})
        /\ \A i \in 1..Len(result.matches) :
              result.matches[i].score = MaxScoreFor(result.matches[i].file_name)

\* Two records score differently above the threshold for one file, the
\* lower one last, and the file's one proposal carries the higher score.
C2_Witness ==
    /\ Called /\ ~result.raised
    /\ Len(uploaded_files) = 1 /\ Len(result.matches) = 1
    /\ Len(schedules) = 2
    /\ ScoreFor(1, uploaded_files[1].name) > ScoreFor(2, uploaded_files[1].name)
    /\ ScoreFor(2, uploaded_files[1].name) > threshold
    /\ result.matches[1].score = ScoreFor(1, uploaded_files[1].name)

\* The first record reaching the maximum score for a file name.
FirstBest(name) ==
    LET scores == [j \in 1..Len(schedules) |-> ScoreFor(j, name)]
        best == Max({scores[j] : j \in 1..Len(schedules)})
    IN  Min({j \in 1..Len(schedules) : scores[j] = best})

\* C3: for every file the matcher returns a proposal exactly when some
\* record scores strictly above the threshold, and the proposal names the
\* maximum-scoring record, whatever the shape of the records (their id may
\* be absent or empty).
C3_ProposalIffAboveThreshold ==
    (Called /\ ~result.raised) =>
        \A k \in 1..Len(uploaded_files) :
            LET name == uploaded_files[k].name
                above == \E j \in 1..Len(schedules) : ScoreFor(j, name) > threshold
            IN  /\ (ProposalsFor(uploaded_files[k].id) # {}) <=> above
                /\ \A i \in ProposalsFor(uploaded_files[k].id) :
                      result.matches[i].schedule_label
                          = schedule_label(schedules[FirstBest(name)])

\* score is non-increasing along ms.
SortedDescending(ms) ==
    \A i, j \in 1..Len(ms) : i < j => ms[i].score >= ms[j].score

RECURSIVE IsSubsequence(_, _)
\* a can be obtained from b by deleting elements.
IsSubsequence(a, b) ==
    IF a = <<>> THEN TRUE
    ELSE IF b = <<>> THEN FALSE
    ELSE IF Head(a) = Head(b) THEN IsSubsequence(Tail(a), Tail(b))
    ELSE IsSubsequence(a, Tail(b))

\* C4 as stated: the sequence of proposals the matcher returns is sorted by
\* descending score.
C4_MatcherReturnsSorted == Called => SortedDescending(result.matches)

\* C4 amended: the matcher returns the proposals in the order in which their
\* files were processed; the sequence displayed (sorted_matches) holds the
\* same proposals sorted by descending score, proposals of equal score
\* keeping the order the matcher gave them.
C4_DisplaySortedStable ==
    /\ Called =>
          IsSubsequence([i \in 1..Len(result.matches) |-> result.matches[i].file_id],
                        [k \in 1..Len(uploaded_files) |-> uploaded_files[k].id])
    /\ pc = "displayed" =>
          /\ SortedDescending(sorted_matches)
          /\ Len(sorted_matches) = Len(result.matches)
          /\ \A m \in 1..Len(result.matches) :
                LET SameScore(x) == x.score = result.matches[m].score
                IN  SelectSeq(sorted_matches, SameScore)
                        = SelectSeq(result.matches, SameScore)

\* The matcher returned a lower-scoring proposal before a higher-scoring
\* one, and the display shows them the other way round.
C4_Witness ==
    /\ pc = "displayed"
    /\ Len(result.matches) = 2
    /\ result.matches[1].score < result.matches[2].score
    /\ sorted_matches = <<result.matches[2], result.matches[1]>>

\* C5: when several records reach the same maximum score for one file, the
\* proposal names the earliest of them in the input record sequence.
C5_EarliestWinsTie ==
    Called => \A i \in 1..Len(result.matches) :
                  LET first == schedules[FirstBest(result.matches[i].file_name)]
                  IN  /\ result.matches[i].schedule_id = ScheduleIdOf(first)
                      /\ result.matches[i].schedule_label = schedule_label(first)

\* Two records with different ids tie at the maximum for a file, and the
\* proposal names the first.
C5_Witness ==
    /\ Called /\ ~result.raised
    /\ Len(uploaded_files) = 1 /\ Len(result.matches) = 1
    /\ Len(schedules) = 2
    /\ ScoreFor(1, uploaded_files[1].name) = ScoreFor(2, uploaded_files[1].name)
    /\ ScheduleIdOf(schedules[1]) # ScheduleIdOf(schedules[2])
    /\ Truthy(ScheduleIdOf(schedules[2]))
    /\ result.matches[1].schedule_id = ScheduleIdOf(schedules[1])

\* C11: the configured threshold is the minimum score of a valid
\* correspondence: a file whose best record scores exactly the threshold
\* (and carries an id) is proposed.
C11_ThresholdIsMinimum ==
    (Called /\ ~result.raised /\ Len(schedules) >= 1) =>
        \A k \in 1..Len(uploaded_files) :
            LET name == uploaded_files[k].name
                best == FirstBest(name)
            IN  (/\ ScoreFor(best, name) = threshold
                 /\ Truthy(ScheduleIdOf(schedules[best])))
                    => ProposalsFor(uploaded_files[k].id) # {}

(***************************************************************************)
(* Properties of the session                                               *)
(***************************************************************************)
\* The entries of the history, by position.
Entries == 1..Len(completed_attachments)

\* C12: completed_attachments holds each (file id, record id) pair at most
\* once.
C12_PairAtMostOnce ==
    \A i, j \in Entries :
        (/\ completed_attachments[i]["file_id"] = completed_attachments[j]["file_id"]
         /\ completed_attachments[i]["schedule_id"]
                = completed_attachments[j]["schedule_id"])
            => i = j

\* Two attachments are recorded, and a stored proposal names the very pair
\* of one of them.
C12_Witness ==
    /\ Len(completed_attachments) = 2
    /\ \E i \in Entries, m \in 1..Len(auto_matches) :
          /\ auto_matches[m].file_id = completed_attachments[i]["file_id"]
          /\ auto_matches[m].schedule_id = completed_attachments[i]["schedule_id"]

\* The latest run called attach_files and the service did not accept.
AttachFailed == attach_call # NoCall /\ attach_call.outcome # "ok"

\* C13: a step whose attach_files call returns failure or raises leaves
\* completed_attachments, uploaded_files and auto_matches unchanged.
C13_FailedAttachChangesNothing ==
    [][AttachFailed' =>
          UNCHANGED <<completed_attachments, uploaded_files, auto_matches>>]_vars

\* An attach call has just raised while a file was available, an attachment
\* recorded and a proposal stored.
C13_Witness ==
    /\ attach_call # NoCall /\ attach_call.outcome = "raised"
    /\ uploaded_files # <<>>
    /\ completed_attachments # <<>>
    /\ auto_matches # <<>>

\* C14: no stored proposal refers to a record outside the current candidate
\* records or to a file outside the current available files.
C14_NoStaleProposal ==
    \A m \in 1..Len(auto_matches) :
        /\ \E i \in 1..Len(last_results) :
              ScheduleIdOf(last_results[i]) = auto_matches[m].schedule_id
        /\ \E k \in 1..Len(uploaded_files) :
              uploaded_files[k].id = auto_matches[m].file_id

OtherRecordListed(i) ==
    \E n \in 1..Len(last_results) :
        ScheduleViewId(last_results[n]) # completed_attachments[i]["schedule_id"]

\* The file of entry i can still be attached: it is among the available
\* files, or a proposal for it is shown with its button.
StillAttachable(i) ==
    \/ \E k \in 1..Len(uploaded_files) :
          uploaded_files[k].id = completed_attachments[i]["file_id"]
    \/ \E m \in 1..Len(auto_matches) :
          /\ auto_matches[m].file_id = completed_attachments[i]["file_id"]
          /\ ~AlreadyAttached(auto_matches[m].file_id)

C17_AppendOrWipe ==
    [][\/ completed_attachments' = completed_attachments
       \/ completed_attachments' = <<>>
       \/ /\ Len(completed_attachments') = Len(completed_attachments) + 1
          /\ SubSeq(completed_attachments', 1, Len(completed_attachments))
                 = completed_attachments
          /\ attach_call' # NoCall
          /\ attach_call'.outcome = "ok"
          /\ attach_call'.schedule_id
                 = completed_attachments'[Len(completed_attachments')]["schedule_id"]
      ]_vars

\* The history holds a manual attachment followed by a confirmed proposal.
C17_Witness ==
    /\ Len(completed_attachments) = 2
    /\ "auto_matched" \notin DOMAIN completed_attachments[1]
    /\ "auto_matched" \in DOMAIN completed_attachments[2]

\* The kind under which the service holds the record of this id.
KindOfRecord(sid) ==
    IF \E n \in 1..Len(DebitRecords) : ScheduleViewId(DebitRecords[n]) = sid
    THEN "debit" ELSE "credit"

\* C18: every attach call uses the kind under which the record it names was
\* fetched.
C18_AttachUsesFetchKind ==
    attach_call # NoCall => attach_call.kind = KindOfRecord(attach_call.schedule_id)

====
